---- MODULE Spec2Model ----
(***************************************************************************)
(* calculate_iv of src/feature_engineering.py: Information Value of one    *)
(* feature column against a binary target column.                          *)
(*                                                                         *)
(* The routine is modelled statement by statement.  A pandas column is a   *)
(* record [values, dtype, categories]; a data frame is a function from     *)
(* column names to columns.  A float is a record [kind, n, d]: kind "num"  *)
(* is the number n/d, kinds "nan", "inf" and "ninf" are the IEEE specials. *)
(* Distributions (Good / total_good) are exact rationals; the logarithm    *)
(* and everything computed from it are fixed-point numbers of four         *)
(* decimals (d = 10000).                                                   *)
(***************************************************************************)
EXTENDS Integers, Sequences, FiniteSets

\* df, feature, target: the arguments (line 197); pc: the statement reached;
\* error: the exception raised; df_iv (221), grouped (229), total_good (234),
\* total_bad (235) and iv (252): the locals.
VARIABLES df, feature, target, pc, error, df_iv, grouped, total_good, total_bad, iv

vars == <<df, feature, target, pc, error, df_iv, grouped, total_good, total_bad, iv>>

\* Bounds of the enumerated datasets.
MaxRows == 5
MaxVal == 2

\* A missing feature value (NaN / None).
NA == 0

\* q=10 of pd.qcut.
Quantiles == 10

FeatureCol == "feature_col"
TargetCol == "target_col"
AbsentCol == "absent_col"

\* Storage types of the feature column that occur in the model.
Dtypes == {"float64", "int64", "float32", "int32", "object", "category"}
\* Storage types that can hold a missing value.
NullableDtypes == {"float64", "float32", "object", "category"}

(***************************************************************************)
(* Floats.                                                                 *)
(***************************************************************************)
RECURSIVE GCD(_, _)
GCD(a, b) == IF b = 0 THEN a ELSE GCD(b, a % b)

Abs(x) == IF x < 0 THEN -x ELSE x

\* The number n/d in lowest terms, d > 0.
Rat(n, d) ==
    LET g == GCD(Abs(n), d)
    IN  [kind |-> "num", n |-> n \div g, d |-> d \div g]

\* A fixed-point number of four decimals.
Fixed(v) == [kind |-> "num", n |-> v, d |-> 10000]

NaN == [kind |-> "nan", n |-> 0, d |-> 1]
Inf == [kind |-> "inf", n |-> 0, d |-> 1]
NInf == [kind |-> "ninf", n |-> 0, d |-> 1]
None == [kind |-> "none", n |-> 0, d |-> 1]

IsNum(x) == x.kind = "num"
IsZero(x) == IsNum(x) /\ x.n = 0

Sgn(x) ==
    CASE x.kind = "inf" -> 1
      [] x.kind = "ninf" -> -1
      [] OTHER -> IF x.n > 0 THEN 1 ELSE IF x.n < 0 THEN -1 ELSE 0

BySign(s) == IF s > 0 THEN Inf ELSE IF s < 0 THEN NInf ELSE NaN

\* Truncation of a rational to four decimals.
Fix4(x) == (x.n * 10000) \div x.d

\* Series / scalar: an integer count divided by an integer total.
IntDiv(n, d) == IF d = 0 THEN BySign(n) ELSE Rat(n, d)

\* Series / Series on floats.
FDiv(a, b) ==
    IF a.kind = "nan" \/ b.kind = "nan" THEN NaN
    ELSE IF IsNum(a) /\ IsNum(b)
         THEN IF b.n = 0 THEN BySign(a.n) ELSE Rat(a.n * b.d, a.d * b.n)
    ELSE IF ~IsNum(a) /\ ~IsNum(b) THEN NaN
    ELSE IF IsNum(a) THEN Rat(0, 1)
    ELSE IF Sgn(b) < 0 THEN BySign(-Sgn(a)) ELSE a

\* Largest k with b * 2^k <= a, for a >= b > 0.
RECURSIVE Log2Floor(_, _)
Log2Floor(a, b) == IF 2 * b <= a THEN 1 + Log2Floor(a, 2 * b) ELSE 0

RECURSIVE Pow2(_)
Pow2(k) == IF k = 0 THEN 1 ELSE 2 * Pow2(k - 1)

\* ln(a/b) in units of 0.0001 for a > b > 0:
\* ln(a/b) = k ln 2 + 2 atanh(z), z = (a - c)/(a + c), c = b * 2^k.
LnFixed(a, b) ==
    LET k == Log2Floor(a, b)
        c == b * Pow2(k)
        z == ((a - c) * 10000) \div (a + c)
        z2 == (z * z) \div 10000
        z3 == (z * z2) \div 10000
        z5 == (z3 * z2) \div 10000
        z7 == (z5 * z2) \div 10000
    IN  (k * 693147) \div 100 + 2 * (z + z3 \div 3 + z5 \div 5 + z7 \div 7)

\* np.log of a float.
FLog(x) ==
    CASE x.kind = "nan" -> NaN
      [] x.kind = "inf" -> Inf
      [] x.kind = "ninf" -> NaN
      [] OTHER ->
            IF x.n < 0 THEN NaN
            ELSE IF x.n = 0 THEN NInf
            ELSE IF x.n = x.d THEN Fixed(0)
            ELSE IF x.n > x.d THEN Fixed(LnFixed(x.n, x.d))
            ELSE Fixed(-LnFixed(x.d, x.n))

\* Series - Series on floats, the difference in four decimals.
FSub(a, b) ==
    IF a.kind = "nan" \/ b.kind = "nan" THEN NaN
    ELSE IF IsNum(a) /\ IsNum(b) THEN Fixed(Fix4(a) - Fix4(b))
    ELSE IF ~IsNum(a) /\ ~IsNum(b) THEN (IF a = b THEN NaN ELSE a)
    ELSE IF IsNum(a) THEN BySign(-Sgn(b))
    ELSE a

\* Series * Series on fixed-point floats.
FMul(a, b) ==
    IF a.kind = "nan" \/ b.kind = "nan" THEN NaN
    ELSE IF IsNum(a) /\ IsNum(b) THEN Fixed((a.n * b.n) \div 10000)
    ELSE BySign(Sgn(a) * Sgn(b))

\* Float addition on fixed-point floats.
FAdd(a, b) ==
    IF a.kind = "nan" \/ b.kind = "nan" THEN NaN
    ELSE IF IsNum(a) /\ IsNum(b) THEN Fixed(a.n + b.n)
    ELSE IF ~IsNum(a) /\ ~IsNum(b) THEN (IF a = b THEN a ELSE NaN)
    ELSE IF IsNum(a) THEN b
    ELSE a

(***************************************************************************)
(* Columns and frames.                                                     *)
(***************************************************************************)
\* A column; the categories of a categorical column are its present values.
Column(values, dtype) ==
    [values |-> values,
     dtype |-> dtype,
     categories |-> IF dtype = "category"
                    THEN {values[i] : i \in DOMAIN values} \ {NA}
                    ELSE {}]

RECURSIVE SortedSeq(_)
SortedSeq(S) ==
    IF S = {} THEN <<>>
    ELSE LET m == CHOOSE x \in S : \A y \in S : x <= y
         IN  <<m>> \o SortedSeq(S \ {m})

RECURSIVE Insert(_, _)
Insert(x, s) ==
    IF s = <<>> THEN <<x>>
    ELSE IF x <= Head(s) THEN <<x>> \o s
    ELSE <<Head(s)>> \o Insert(x, Tail(s))

RECURSIVE Sort(_)
Sort(s) == IF s = <<>> THEN <<>> ELSE Insert(Head(s), Sort(Tail(s)))

RECURSIVE SumSeq(_)
SumSeq(s) == IF s = <<>> THEN 0 ELSE Head(s) + SumSeq(Tail(s))

NotNA(v) == v # NA

\* df[[feature, target]].copy(): KeyError when a name is no column.
HasColumns(frame, names) == names \subseteq DOMAIN frame
SelectCopy(frame, names) == [c \in names |-> frame[c]]

\* The dtype test of line 224.
IsBinnedDtype(dtype) == dtype \in {"float64", "int64"}

(***************************************************************************)
(* pd.qcut(values, q=Quantiles, duplicates='drop').  Edges are kept scaled *)
(* by Quantiles, so that the linear interpolation of Series.quantile is    *)
(* exact integer arithmetic.                                               *)
(***************************************************************************)
QuantileEdge(xs, k) ==
    LET n == Len(xs)
        p == k * (n - 1)
        lo == (p \div Quantiles) + 1
        hi == IF lo < n THEN lo + 1 ELSE lo
    IN  Quantiles * xs[lo] + (xs[hi] - xs[lo]) * (p % Quantiles)

\* The deduplicated quantile edges of the non-missing values; no edge when
\* there is no value.
QuantileEdges(values) ==
    LET xs == Sort(SelectSeq(values, NotNA))
    IN  IF xs = <<>> THEN {} ELSE {QuantileEdge(xs, k) : k \in 0 .. Quantiles}

\* _bins_to_cuts: searchsorted(side='left'), include_lowest, and the mask
\* (ids == len(bins)) | (ids == 0).
BinId(edges, v) ==
    IF v = NA \/ edges = {} THEN NA
    ELSE LET lowest == CHOOSE e \in edges : \A o \in edges : e <= o
             id0 == Cardinality({e \in edges : e < Quantiles * v})
             id == IF Quantiles * v = lowest THEN 1 ELSE id0
         IN  IF id = 0 \/ id = Cardinality(edges) THEN NA ELSE id

\* Variant: a lone edge is kept as one bin that holds every row.
QCutSingleBin(values) ==
    LET edges == QuantileEdges(values)
        lone == Cardinality(edges) = 1
    IN  [values |-> [i \in DOMAIN values |->
                        IF lone /\ values[i] # NA THEN 1 ELSE BinId(edges, values[i])],
         dtype |-> "category",
         categories |-> IF lone THEN {1} ELSE 1 .. (Cardinality(edges) - 1)]

QCut(values) ==
    LET edges == QuantileEdges(values)
    IN  [values |-> [i \in DOMAIN values |-> BinId(edges, values[i])],
         dtype |-> "category",
         categories |-> 1 .. (Cardinality(edges) - 1)]

(***************************************************************************)
(* df_iv.groupby(feature)[target].agg(['count', 'sum']) and the Good       *)
(* column.  Rows whose key is missing are dropped (dropna=True); with      *)
(* observed=False every category of a categorical key is a group.          *)
(***************************************************************************)
GroupKeys(col, observed) ==
    IF col.dtype = "category" /\ ~observed
    THEN col.categories
    ELSE {col.values[i] : i \in DOMAIN col.values} \ {NA}

RowsOf(col, key) == {i \in DOMAIN col.values : col.values[i] = key}

RECURSIVE SumOver(_, _)
SumOver(values, rows) ==
    IF rows = {} THEN 0
    ELSE LET i == CHOOSE r \in rows : TRUE
         IN  values[i] + SumOver(values, rows \ {i})

NoColumns ==
    [index |-> <<>>, Total |-> <<>>, Bad |-> <<>>, Good |-> <<>>,
     Dist_Good |-> <<>>, Dist_Bad |-> <<>>, WoE |-> <<>>, IV |-> <<>>]

GroupBy(frame, f, t, observed) ==
    LET index == SortedSeq(GroupKeys(frame[f], observed))
        Total == [j \in DOMAIN index |-> Cardinality(RowsOf(frame[f], index[j]))]
        Bad == [j \in DOMAIN index |-> SumOver(frame[t].values, RowsOf(frame[f], index[j]))]
    IN  [NoColumns EXCEPT !.index = index, !.Total = Total, !.Bad = Bad,
                          !.Good = [j \in DOMAIN index |-> Total[j] - Bad[j]]]

\* Variants: another constant, and no substitution at all.
EpsilonThousandth == Rat(1, 1000)
ReplaceNothing(x) == x

\* Series.replace(0, 0.0001).
Epsilon == Rat(1, 10000)
Replace(x) == IF IsZero(x) THEN Epsilon ELSE x

RECURSIVE FSumSkipNa(_)
FSumSkipNa(s) ==
    IF s = <<>> THEN Fixed(0)
    ELSE IF Head(s).kind = "nan" THEN FSumSkipNa(Tail(s))
    ELSE FAdd(Head(s), FSumSkipNa(Tail(s)))

(***************************************************************************)
(* The caller's datasets.                                                  *)
(***************************************************************************)
FeatureValues(dtype) ==
    IF dtype \in NullableDtypes THEN (1 .. MaxVal) \cup {NA} ELSE 1 .. MaxVal

\* Rows are enumerated up to their order: by feature value, missing values
\* last, and by target within a feature value.
RowKey(v, t) == 2 * (IF v = NA THEN MaxVal + 1 ELSE v) + t
RowsOrdered(fv, tv) ==
    \A i \in 1 .. (Len(fv) - 1) : RowKey(fv[i], tv[i]) <= RowKey(fv[i + 1], tv[i + 1])

Frame(fv, dtype, tv) ==
    [c \in {FeatureCol, TargetCol} |->
        IF c = FeatureCol THEN Column(fv, dtype) ELSE Column(tv, "int64")]

NoFrame == [c \in {} |-> Column(<<>>, "object")]

InitCall(frame) ==
    /\ df = frame
    /\ feature \in {FeatureCol, AbsentCol}
    /\ target \in {TargetCol, AbsentCol}
    /\ pc = "call"
    /\ error = "none"
    /\ df_iv = NoFrame
    /\ grouped = NoColumns
    /\ total_good = 0
    /\ total_bad = 0
    /\ iv = None

Init ==
    \E n \in 1 .. MaxRows, dtype \in Dtypes :
        \E fv \in [1 .. n -> FeatureValues(dtype)] :
            \E tv \in [1 .. n -> {0, 1}] :
                /\ RowsOrdered(fv, tv)
                /\ InitCall(Frame(fv, dtype, tv))

\* The scenario of eight rows with every target column.
ScenarioFeature == <<1, 1, 2, 2, 3, 3, 4, 4>>
ScenarioTarget == <<0, 0, 1, 1, 0, 1, 0, 1>>

ScenarioInit ==
    \E dtype \in Dtypes :
        \E tv \in [DOMAIN ScenarioFeature -> {0, 1}] :
            InitCall(Frame(ScenarioFeature, dtype, tv))

(***************************************************************************)
(* The statements of calculate_iv.                                         *)
(***************************************************************************)
\* Variant: a missing column is defaulted to an undefined result.
SelectColumnsDefaulting ==
    /\ pc = "call"
    /\ IF HasColumns(df, {feature, target})
       THEN /\ df_iv' = SelectCopy(df, {feature, target})
            /\ pc' = "selected"
            /\ iv' = iv
       ELSE /\ iv' = NaN
            /\ pc' = "done"
            /\ df_iv' = df_iv
    /\ UNCHANGED <<df, feature, target, error, grouped, total_good, total_bad>>

\* line 221
SelectColumns ==
    /\ pc = "call"
    /\ IF HasColumns(df, {feature, target})
       THEN /\ df_iv' = SelectCopy(df, {feature, target})
            /\ pc' = "selected"
            /\ error' = error
       ELSE /\ error' = "KeyError"
            /\ pc' = "raised"
            /\ df_iv' = df_iv
    /\ UNCHANGED <<df, feature, target, grouped, total_good, total_bad, iv>>

\* Variant: the bin labels are assigned to the caller's frame as well.
DiscretizeInPlace ==
    /\ pc = "selected"
    /\ IF IsBinnedDtype(df_iv[feature].dtype)
       THEN /\ df_iv' = [df_iv EXCEPT ![feature] = QCut(df_iv[feature].values)]
            /\ df' = [df EXCEPT ![feature] = QCut(df[feature].values)]
       ELSE UNCHANGED <<df, df_iv>>
    /\ pc' = "binned"
    /\ UNCHANGED <<feature, target, error, grouped, total_good, total_bad, iv>>

\* lines 224-226
Discretize ==
    /\ pc = "selected"
    /\ df_iv' = IF IsBinnedDtype(df_iv[feature].dtype)
                THEN [df_iv EXCEPT ![feature] = QCut(df_iv[feature].values)]
                ELSE df_iv
    /\ pc' = "binned"
    /\ UNCHANGED <<df, feature, target, error, grouped, total_good, total_bad, iv>>

\* lines 229-231
GroupRows ==
    /\ pc = "binned"
    /\ \E observed \in BOOLEAN : grouped' = GroupBy(df_iv, feature, target, observed)
    /\ pc' = "grouped"
    /\ UNCHANGED <<df, feature, target, error, df_iv, total_good, total_bad, iv>>

\* lines 234-235
Totals ==
    /\ pc = "grouped"
    /\ total_good' = SumSeq(grouped.Good)
    /\ total_bad' = SumSeq(grouped.Bad)
    /\ pc' = "totalled"
    /\ UNCHANGED <<df, feature, target, error, df_iv, grouped, iv>>

\* Variant: the distributions are taken within the bin, not over the totals.
DistributionsByTotal ==
    /\ pc = "totalled"
    /\ grouped' = [grouped EXCEPT
          !.Dist_Good = [j \in DOMAIN grouped.index |-> IntDiv(grouped.Good[j], grouped.Total[j])],
          !.Dist_Bad = [j \in DOMAIN grouped.index |-> IntDiv(grouped.Bad[j], grouped.Total[j])]]
    /\ pc' = "distributed"
    /\ UNCHANGED <<df, feature, target, error, df_iv, total_good, total_bad, iv>>

\* lines 238-239
Distributions ==
    /\ pc = "totalled"
    /\ grouped' = [grouped EXCEPT
          !.Dist_Good = [j \in DOMAIN grouped.index |-> IntDiv(grouped.Good[j], total_good)],
          !.Dist_Bad = [j \in DOMAIN grouped.index |-> IntDiv(grouped.Bad[j], total_bad)]]
    /\ pc' = "distributed"
    /\ UNCHANGED <<df, feature, target, error, df_iv, total_good, total_bad, iv>>

\* lines 242-243
ReplaceZeros ==
    /\ pc = "distributed"
    /\ grouped' = [grouped EXCEPT
          !.Dist_Good = [j \in DOMAIN grouped.index |-> Replace(grouped.Dist_Good[j])],
          !.Dist_Bad = [j \in DOMAIN grouped.index |-> Replace(grouped.Dist_Bad[j])]]
    /\ pc' = "replaced"
    /\ UNCHANGED <<df, feature, target, error, df_iv, total_good, total_bad, iv>>

\* Variant: the ratio of the logarithm is inverted.
WoEInverted(dist_good, dist_bad) == FLog(FDiv(dist_bad, dist_good))

\* line 246
WoEOf(dist_good, dist_bad) == FLog(FDiv(dist_good, dist_bad))

WeightOfEvidence ==
    /\ pc = "replaced"
    /\ grouped' = [grouped EXCEPT
          !.WoE = [j \in DOMAIN grouped.index |->
                      WoEOf(grouped.Dist_Good[j], grouped.Dist_Bad[j])]]
    /\ pc' = "woe"
    /\ UNCHANGED <<df, feature, target, error, df_iv, total_good, total_bad, iv>>

\* line 249
IVOf(dist_good, dist_bad, woe) == FMul(FSub(dist_good, dist_bad), woe)

BinIV ==
    /\ pc = "woe"
    /\ grouped' = [grouped EXCEPT
          !.IV = [j \in DOMAIN grouped.index |->
                     IVOf(grouped.Dist_Good[j], grouped.Dist_Bad[j], grouped.WoE[j])]]
    /\ pc' = "iv"
    /\ UNCHANGED <<df, feature, target, error, df_iv, total_good, total_bad, iv>>

\* lines 252-254
SumAndReturn ==
    /\ pc = "iv"
    /\ iv' = FSumSkipNa(grouped.IV)
    /\ pc' = "done"
    /\ UNCHANGED <<df, feature, target, error, df_iv, grouped, total_good, total_bad>>

Next ==
    \/ SelectColumns
    \/ Discretize
    \/ GroupRows
    \/ Totals
    \/ Distributions
    \/ ReplaceZeros
    \/ WeightOfEvidence
    \/ BinIV
    \/ SumAndReturn

Spec == Init /\ [][Next]_vars

SpecScenario == ScenarioInit /\ [][Next]_vars

(***************************************************************************)
(* Vocabulary of the properties.                                           *)
(***************************************************************************)
CallerFeature == df[FeatureCol]
CallerTarget == df[TargetCol].values
NumRows == Len(CallerTarget)
ValidCall == HasColumns(df, {feature, target})
Finished == pc \in {"done", "raised"}
Bins == DOMAIN grouped.index
BothClasses == {CallerTarget[i] : i \in DOMAIN CallerTarget} = {0, 1}
PresentValues == {CallerFeature.values[i] : i \in DOMAIN CallerFeature.values} \ {NA}
ConstantFeature == Cardinality(PresentValues) = 1 /\ \A i \in DOMAIN CallerFeature.values : CallerFeature.values[i] # NA
TargetsOf(v) == {CallerTarget[i] : i \in RowsOf(CallerFeature, v)}
One == Rat(1, 1)
AfterReplace == pc \in {"replaced", "woe", "iv", "done"}
AfterWoE == pc \in {"woe", "iv", "done"}

(***************************************************************************)
(* C1: when the feature name or the target name is not a column of the     *)
(* dataset, the call ends in the missing-column error (pandas' KeyError)   *)
(* and never returns a number.                                             *)
(***************************************************************************)
C1_MissingColumnRaises ==
    (pc # "call" /\ ~ValidCall) => (pc = "raised" /\ error = "KeyError" /\ iv = None)

C1_Witness ==
    pc = "raised" /\ feature = AbsentCol /\ target = TargetCol /\ NumRows = MaxRows

(***************************************************************************)
(* C2: when the target holds a single class the call ends in an explicit   *)
(* DegenerateTarget error and never returns a number.  (The code returns.) *)
(***************************************************************************)
C2_DegenerateTargetRaises ==
    (ValidCall /\ ~BothClasses /\ Finished) => (pc = "raised" /\ error = "DegenerateTarget")

(***************************************************************************)
(* C3: no step of calculate_iv changes the caller's dataset: every column  *)
(* keeps its values and its storage type.                                  *)
(***************************************************************************)
C3_DatasetUnchanged == [][df' = df]_vars

C3_Witness ==
    /\ pc = "done"
    /\ df_iv[feature].dtype = "category"
    /\ df_iv[feature].values # df[feature].values
    /\ df[feature].dtype \in {"float64", "int64"}

(***************************************************************************)
(* C4 as stated: a constant feature with both classes in the target gives  *)
(* IV = 0 from a single bin that holds all rows, Dist_Good = Dist_Bad = 1  *)
(* and WoE = 0, for a numeric feature as for a categorical one.            *)
(***************************************************************************)
C4_ConstantFeatureSingleBin ==
    (pc = "done" /\ ConstantFeature /\ BothClasses) =>
        /\ iv = Fixed(0)
        /\ Len(grouped.index) = 1
        /\ grouped.Total[1] = NumRows
        /\ grouped.Dist_Good[1] = One
        /\ grouped.Dist_Bad[1] = One
        /\ grouped.WoE[1] = Fixed(0)

(***************************************************************************)
(* C4 amended: a constant feature with both classes in the target gives    *)
(* IV = 0 without an error; from the single bin described above when the   *)
(* feature is not stored as float64 or int64, and from an empty table (the *)
(* quantile binning leaves every row without a bin) when it is.            *)
(***************************************************************************)
C4_ConstantFeatureZeroIV ==
    (Finished /\ ValidCall /\ ConstantFeature /\ BothClasses) =>
        /\ pc = "done"
        /\ iv = Fixed(0)
        /\ IF IsBinnedDtype(CallerFeature.dtype)
           THEN /\ grouped.index = <<>>
                /\ \A i \in DOMAIN df_iv[feature].values : df_iv[feature].values[i] = NA
           ELSE /\ Len(grouped.index) = 1
                /\ grouped.Total[1] = NumRows
                /\ grouped.Dist_Good[1] = One
                /\ grouped.Dist_Bad[1] = One
                /\ grouped.WoE[1] = Fixed(0)

C4_Witness ==
    /\ pc = "done"
    /\ ConstantFeature
    /\ BothClasses
    /\ CallerFeature.dtype = "float64"
    /\ NumRows = MaxRows

(***************************************************************************)
(* C5: when every bin holds a Good row and a Bad row, the returned IV is   *)
(* a number >= 0, and in no bin do Dist_Good - Dist_Bad and the WoE have   *)
(* opposite signs.                                                         *)
(***************************************************************************)
AllBinsMixed == \A j \in Bins : grouped.Good[j] > 0 /\ grouped.Bad[j] > 0

C5_NonNegativeIV ==
    (pc = "done" /\ AllBinsMixed) =>
        /\ IsNum(iv)
        /\ iv.n >= 0
        /\ \A j \in Bins :
              Sgn(FSub(grouped.Dist_Good[j], grouped.Dist_Bad[j])) * Sgn(grouped.WoE[j]) >= 0

C5_Witness ==
    /\ pc = "done"
    /\ AllBinsMixed
    /\ Len(grouped.index) = 2
    /\ iv.n > 0

(***************************************************************************)
(* C6: a categorical feature with exactly two values, one only in rows     *)
(* with target 1 and the other only in rows with target 0, gives two bins  *)
(* with (Dist_Good, Dist_Bad) = (0.0001, 1) and (1, 0.0001) once zeros are *)
(* substituted, and the returned IV exceeds 0.5.                           *)
(***************************************************************************)
PerfectSeparation ==
    /\ ValidCall
    /\ ~IsBinnedDtype(CallerFeature.dtype)
    /\ Cardinality(PresentValues) = 2
    /\ \A v \in PresentValues : Cardinality(TargetsOf(v)) = 1
    /\ \E v \in PresentValues : TargetsOf(v) = {0}
    /\ \E v \in PresentValues : TargetsOf(v) = {1}

C6_PerfectSeparation ==
    (PerfectSeparation /\ AfterReplace) =>
        /\ Len(grouped.index) = 2
        /\ \A j \in Bins :
              IF TargetsOf(grouped.index[j]) = {1}
              THEN grouped.Dist_Good[j] = Rat(1, 10000) /\ grouped.Dist_Bad[j] = One
              ELSE grouped.Dist_Good[j] = One /\ grouped.Dist_Bad[j] = Rat(1, 10000)
        /\ pc = "done" => (IsNum(iv) /\ iv.n > 5000)

C6_Witness ==
    pc = "done" /\ PerfectSeparation /\ NumRows = MaxRows

(***************************************************************************)
(* C7: feature [1,1,2,2,3,3,4,4] (categorical) with target                 *)
(* [0,0,1,1,0,1,0,1] gives exactly 4 bins of Total 2; the bin of value 1   *)
(* has Good = 2, Bad = 0, Dist_Good = 2/4, Dist_Bad = 0.0001 and the IV    *)
(* contribution (0.5 - 0.0001) ln(0.5 / 0.0001) = 4.2577 (to 0.001); the   *)
(* returned IV is the sum of the four contributions.                       *)
(***************************************************************************)
Scenario ==
    /\ ValidCall
    /\ CallerFeature.values = ScenarioFeature
    /\ ~IsBinnedDtype(CallerFeature.dtype)
    /\ CallerTarget = ScenarioTarget

C8_EveryRowAggregated ==
    (pc = "done" /\ CallerFeature.dtype \in {"object", "category"}) =>
        /\ SumSeq(grouped.Total) = NumRows
        /\ total_good + total_bad = NumRows

(***************************************************************************)
(* C9: when the WoE is computed, every distribution that was exactly 0 is  *)
(* 0.0001 and every other one is unchanged; with total_good > 0 and        *)
(* total_bad > 0 both distributions of every bin are > 0 and the WoE of    *)
(* every bin is a finite number.                                           *)
(***************************************************************************)
Substituted(count, total) ==
    IF IsZero(IntDiv(count, total)) THEN Rat(1, 10000) ELSE IntDiv(count, total)

C9_ZeroSubstitution ==
    AfterReplace =>
        \A j \in Bins :
            /\ grouped.Dist_Good[j] = Substituted(grouped.Good[j], total_good)
            /\ grouped.Dist_Bad[j] = Substituted(grouped.Bad[j], total_bad)
            /\ (total_good > 0 /\ total_bad > 0) =>
                  /\ IsNum(grouped.Dist_Good[j]) /\ grouped.Dist_Good[j].n > 0
                  /\ IsNum(grouped.Dist_Bad[j]) /\ grouped.Dist_Bad[j].n > 0
                  /\ AfterWoE => IsNum(grouped.WoE[j])

C9_Witness ==
    /\ pc = "woe"
    /\ total_good > 0
    /\ total_bad > 0
    /\ \E j \in Bins : grouped.Good[j] = 0 /\ grouped.Bad[j] > 0
    /\ \E j \in Bins : grouped.Bad[j] = 0 /\ grouped.Good[j] > 0

(***************************************************************************)
(* C10: a feature of floating-point or integer storage type, of any width, *)
(* is cut into at most 10 quantile bins and the call completes without an  *)
(* error; only a feature of another type is grouped by distinct value.     *)
(* (The code bins float64 and int64 only.)                                 *)
(***************************************************************************)
NumericDtypes == {"float64", "float32", "int64", "int32"}

C10_NumericFeaturesBinned ==
    (pc = "done") =>
        /\ error = "none"
        /\ Len(grouped.index) <= Quantiles \/ CallerFeature.dtype \notin NumericDtypes
        /\ (CallerFeature.dtype \in NumericDtypes) <=> (df_iv[feature] # CallerFeature)

====
